---- MODULE Spec2Model ----
(***************************************************************************)
(* Fokker-Planck pusher of src/pusherFP.ipynb: the notebook's cells as a   *)
(* state machine.                                                          *)
(*                                                                         *)
(* Floats are modelled in decimal fixed point: the integer v stands for    *)
(* the real v / Q.  NaN is a distinguished value that every arithmetic     *)
(* operation propagates and every comparison answers FALSE on, as IEEE     *)
(* arithmetic does.  numpy arrays live in a heap and program variables     *)
(* hold references into it, so that aliasing is expressible.               *)
(***************************************************************************)
EXTENDS Integers, Sequences, FiniteSets, TLC

\* ---------------------------------------------------------------- bounds
MaxN == 3
MaxT == 3
\* most particle updates (Nsmpl * tdim) a run is asked for
MaxWork == 6

\* ------------------------------------------------------- float arithmetic
Q == 1000
NaN == -2000000000
One == Q

IsNaN(a) == a = NaN

Abs(a) == IF a < 0 THEN -a ELSE a

\* division rounding toward zero (b # 0), as float rounding is symmetric
TruncDiv(a, b) ==
    IF (a >= 0) = (b > 0) THEN Abs(a) \div Abs(b) ELSE -(Abs(a) \div Abs(b))

FAdd(a, b) == IF IsNaN(a) \/ IsNaN(b) THEN NaN ELSE a + b
FNeg(a) == IF IsNaN(a) THEN NaN ELSE -a
FMul(a, b) == IF IsNaN(a) \/ IsNaN(b) THEN NaN ELSE TruncDiv(a * b, Q)
\* float / float; a zero divisor of numpy floats gives nan (0/0)
FDiv(a, b) == IF IsNaN(a) \/ IsNaN(b) \/ b = 0 THEN NaN ELSE TruncDiv(a * Q, b)
FLt(a, b) == ~IsNaN(a) /\ ~IsNaN(b) /\ a < b
FGt(a, b) == ~IsNaN(a) /\ ~IsNaN(b) /\ a > b

\* One digit, in base 32, of the square root of n: the largest base + step*c
\* whose square is at most n.  (Function arguments are values, so that each
\* digit is computed once.)
SqrtDigit[n \in Nat, base \in Nat, step \in Nat] ==
    base + step * (CHOOSE c \in 0..31 :
                      /\ (base + step * c) * (base + step * c) <= n
                      /\ n < (base + step * (c + 1)) * (base + step * (c + 1)))

\* floor of the square root of 0 <= n < 2^30
ISqrt[n \in Nat] == SqrtDigit[n, SqrtDigit[n, SqrtDigit[n, 0, 1024], 32], 1]

\* square root of a non-negative float
SqrtNonNeg(a) == ISqrt[a * Q]

\* ----------------------------------------------------------------- state
VARIABLES
    pc,            \* "cell2", "cell3", "loop", "done", "error"
    err,           \* the exception that ended the run, or "none"
    heap,          \* the numpy arrays allocated so far
    gmdist,        \* references into heap (0: name not bound yet)
    gmdist_dump1,
    gmdist_dump2,
    gmdist_dump3,
    Nsmpl,
    tmax,
    tdim,
    dt,
    gmlst,
    S_lst,
    R_lst,
    t,
    i,
    Sval,          \* value returned by pushers.S39
    Rval,          \* value returned by pushers.R40
    sqrtImpl,      \* which sqrt `from pushers import *` binds: "math" or "numpy"
    draws,         \* history: calls of np.random.randn so far
    updates,       \* history: stores into gmdist[i] (line 120) so far
    written,       \* history: stores into each slot during the current timestep
    steps,         \* history: completed iterations of the outer loop
    captured,      \* history: which of dump1, dump2, dump3 hold a snapshot
    noiseZero      \* history: every draw so far returned 0

vars == <<pc, err, heap, gmdist, gmdist_dump1, gmdist_dump2, gmdist_dump3,
          Nsmpl, tmax, tdim, dt, gmlst, S_lst, R_lst, t, i, Sval, Rval,
          sqrtImpl, draws, updates, written, steps, captured, noiseZero>>

config == <<Nsmpl, tmax, tdim, Sval, Rval, sqrtImpl>>
tables == <<gmlst, S_lst, R_lst>>
names == <<gmdist, gmdist_dump1, gmdist_dump2, gmdist_dump3>>

\* ---------------------------------------------------------------- inputs
\* values of 1800 + 90*rng.standard_normal(): 0.5, 1.002 and 1800
RawValues == {500, 1002, 1800000}
\* values of np.random.randn(): -2, 0, 2
Noise == {-2000, 0, 2000}
\* simulation duration tmax: -0.01, 0, 0.01
TmaxValues == {-10, 0, 10}
\* pairs (drift rate S, diffusion rate R) the coefficient functions return:
\* (10, 0), (1, 0), (1, 100) and, with a diffusion rate below zero, (1, -1)
CoefValues == {<<10000, 0>>, <<1000, 0>>, <<1000, 100000>>, <<1000, -1000>>}

RECURSIVE SeqsUpTo(_, _)
SeqsUpTo(S, n) ==
    IF n = 0 THEN {<<>>}
    ELSE LET shorter == SeqsUpTo(S, n - 1)
         IN shorter \cup {Append(s, v) : s \in {x \in shorter : Len(x) = n - 1}, v \in S}

\* ------------------------------------------------------------ numpy arrays
\* np.copy(a): a fresh array with a's contents, and the reference to it
NpAlias(h, r) == [heap |-> h, ref |-> r]
np_copy(h, r) == [heap |-> Append(h, h[r]), ref |-> Len(h) + 1]

\* np.copy(a) * 0: a fresh array of zeros of a's length
np_copy_times0(h, r) ==
    [heap |-> Append(h, [k \in 1..Len(h[r]) |-> FMul(h[r][k], 0)]),
     ref |-> Len(h) + 1]

\* gmdist[gmdist<1]=1 and lines 123-124: the physical lower bound
NoClamp(g) == g
Clamp(g) == IF FLt(g, One) THEN One ELSE g

\* np.max of a non-empty array
RECURSIVE SeqMax(_)
SeqMax(a) ==
    IF Len(a) = 1 THEN a[1]
    ELSE LET m == SeqMax(Tail(a)) IN IF a[1] > m THEN a[1] ELSE m

\* ----------------------------------------------------- coefficient tables
M == 200
gamma_ref == 1800
chi0 == 100

\* chi = gm/1800*chi0
chi(gm) == FMul(gm \div gamma_ref, chi0)

\* pushers.S39(chi, Kalpha) and pushers.R40(chi, gm, Kalpha)
S39(x) == Sval
R40(x, gm) == Rval

\* np.linspace(start, stop, num): num equally spaced nodes, the last one stop
linspace(start, stop, num) ==
    [k \in 1..num |->
        IF k = num THEN stop
        ELSE start + TruncDiv((k - 1) * (stop - start), num - 1)]

\* interpolate.interp1d(x, y)(x_new), kind='linear', bounds_error=True
OutOfBounds(x, x_new) == FLt(x_new, x[1]) \/ FGt(x_new, x[Len(x)])
NeverOutOfBounds(x, x_new) == FALSE
BoundsError(x, x_new) == OutOfBounds(x, x_new)

\* np.searchsorted(x, x_new), clipped to 1..len(x)-1 (0-based index of the
\* upper node of the interval)
SearchSorted(x, x_new) ==
    LET n == Cardinality({k \in 1..Len(x) : x[k] < x_new})
    IN IF n < 1 THEN 1 ELSE IF n > Len(x) - 1 THEN Len(x) - 1 ELSE n

\* slope*(x_new - x_lo) + y_lo on the interval whose upper node is hi
Lerp(x, y, x_new, hi) ==
    FAdd(FMul(FDiv(y[hi] - y[hi - 1], x[hi] - x[hi - 1]), x_new - x[hi - 1]),
         y[hi - 1])

Interp(x, y, x_new) ==
    IF IsNaN(x_new) THEN NaN
    ELSE [hi \in 2..Len(x) |-> Lerp(x, y, x_new, hi)][SearchSorted(x, x_new) + 1]

S_intrp(g) == Interp(gmlst, S_lst, g)
R_intrp(g) == Interp(gmlst, R_lst, g)

\* ------------------------------------------------- Euler-Maruyama update
\* sqrt(a): math.sqrt raises ValueError on a negative argument, numpy.sqrt
\* returns nan
SqrtRaises(a) == sqrtImpl = "math" /\ FLt(a, 0)
Sqrt(a) == IF IsNaN(a) \/ a < 0 THEN NaN ELSE SqrtNonNeg(a)

\* dW = sqrt(dt) * np.random.randn()
Wiener(z) == FMul(Sqrt(dt), z)

\* Niel2018 eq 42: dgamma = -S * dt + sqrt(R) * dW
DgammaNoDrift(S, R, dW) == FMul(Sqrt(R), dW)
Dgamma(S, R, dW) == FAdd(FMul(FNeg(S), dt), FMul(Sqrt(R), dW))

\* the value lines 110-124 leave in gmdist[i] when no call raises
StepValue(g, z) == Clamp(FAdd(g, Dgamma(S_intrp(g), R_intrp(g), Wiener(z))))

\* the slot of the array that gmdist[i] names (Python indices start at 0)
SlotStale(idx) == 1
Slot(idx) == idx + 1

\* t in range(tdim)
InRangeShort(tt) == tt < tdim - 1
InRange(tt) == tt < tdim

\* int(tdim/2)
IntHalfCeil(n) == (n + 1) \div 2
IntHalf(n) == TruncDiv(n, 2)

\* ------------------------------------------------------------------ Init
\* the notebook with its parameters chosen and line 57's sample drawn; the
\* names that cell 2 binds are not bound yet
Start(sample, tm, td, c, sq) ==
    /\ pc = "cell2"
    /\ err = "none"
    /\ heap = <<sample>>
    /\ Nsmpl = Len(sample)
    /\ gmdist = 1
    /\ gmdist_dump1 = 0
    /\ gmdist_dump2 = 0
    /\ gmdist_dump3 = 0
    /\ tmax = tm
    /\ tdim = td
    /\ dt = 0
    /\ gmlst = <<>>
    /\ S_lst = <<>>
    /\ R_lst = <<>>
    /\ t = 0
    /\ i = 0
    /\ Sval = c[1]
    /\ Rval = c[2]
    /\ sqrtImpl = sq
    /\ draws = 0
    /\ updates = 0
    /\ written = [k \in 1..Len(sample) |-> 0]
    /\ steps = 0
    /\ captured = {}
    /\ noiseZero = TRUE

\* parameters in the documented domain: N >= 0, T >= 1, dt > 0, and
\* coefficient functions that return non-negative rates
Init ==
    \E sample \in SeqsUpTo(RawValues, MaxN), td \in 1..MaxT,
       tm \in {v \in TmaxValues : v > 0}, c \in {v \in CoefValues : v[2] >= 0},
       sq \in {"math", "numpy"} :
        /\ Len(sample) * td <= MaxWork
        /\ Start(sample, tm, td, c, sq)

\* parameters edited to any value, in or out of the documented domain
InitAny ==
    \E sample \in SeqsUpTo(RawValues, MaxN), td \in -1..MaxT,
       tm \in TmaxValues, c \in CoefValues, sq \in {"math", "numpy"} :
        /\ Len(sample) * td <= MaxWork
        /\ Start(sample, tm, td, c, sq)

\* --------------------------------------------------------------- actions
\* cell 2, lines 58-80: clamp the sample, allocate the dumps, derive dt
Setup ==
    /\ pc = "cell2"
    /\ LET h1 == [heap EXCEPT ![gmdist] = [k \in 1..Len(@) |-> Clamp(@[k])]]
           c1 == np_copy(h1, gmdist)
           c2 == np_copy_times0(c1.heap, gmdist)
           c3 == np_copy_times0(c2.heap, gmdist)
       IN /\ heap' = c3.heap
          /\ gmdist_dump1' = c1.ref
          /\ gmdist_dump2' = c2.ref
          /\ gmdist_dump3' = c3.ref
    /\ captured' = {1}
    /\ IF tdim = 0
         THEN /\ pc' = "error"
              /\ err' = "ZeroDivisionError"
              /\ dt' = dt
         ELSE /\ pc' = "cell3"
              /\ err' = err
              /\ dt' = TruncDiv(tmax, tdim)
    /\ UNCHANGED <<gmdist, config, tables, t, i, draws, updates,
                   written, steps, noiseZero>>

\* cell 3, lines 90-94: the grid and the two interpolants
Interpolation ==
    /\ pc = "cell3"
    /\ IF Len(heap[gmdist]) = 0
         THEN /\ pc' = "error"
              /\ err' = "ValueError: zero-size array to reduction operation maximum"
              /\ UNCHANGED tables
         ELSE /\ pc' = "loop"
              /\ err' = err
              /\ \E gmax \in {SeqMax(heap[gmdist])} :
                    gmlst' = linspace(One, 2 * gmax, M)
              /\ S_lst' = [k \in 1..M |-> S39(chi(gmlst'[k]))]
              /\ R_lst' = [k \in 1..M |-> R40(chi(gmlst'[k]), gmlst'[k])]
    /\ UNCHANGED <<heap, names, config, dt, t, i, draws, updates,
                   written, steps, captured, noiseZero>>

\* cell 4, lines 107-124: one iteration of the inner loop
ParticleUpdate ==
    /\ pc = "loop"
    /\ InRange(t)
    /\ i < Nsmpl
    /\ \E g \in {heap[gmdist][Slot(i)]} :
          IF BoundsError(gmlst, g)
            THEN \* S_intrp(gmdist[i]) raises
                 /\ pc' = "error"
                 /\ err' = "ValueError: interp1d out of range"
                 /\ UNCHANGED <<heap, i, draws, updates, written, noiseZero>>
          ELSE IF SqrtRaises(dt)
            THEN \* sqrt(dt) raises before np.random.randn() is called
                 /\ pc' = "error"
                 /\ err' = "ValueError: math domain error"
                 /\ UNCHANGED <<heap, i, draws, updates, written, noiseZero>>
          ELSE \E S \in {S_intrp(g)}, R \in {R_intrp(g)}, z \in Noise :
                 /\ draws' = draws + 1
                 /\ noiseZero' = (noiseZero /\ z = 0)
                 /\ IF SqrtRaises(R)
                      THEN \* sqrt(R) raises after the draw
                           /\ pc' = "error"
                           /\ err' = "ValueError: math domain error"
                           /\ UNCHANGED <<heap, i, updates, written>>
                      ELSE /\ \E dW \in {Wiener(z)} :
                                \E dgamma \in {Dgamma(S, R, dW)} :
                                   heap' = [heap EXCEPT ![gmdist][Slot(i)] =
                                                Clamp(FAdd(g, dgamma))]
                           /\ written' = [written EXCEPT ![Slot(i)] = @ + 1]
                           /\ updates' = updates + 1
                           /\ i' = i + 1
                           /\ UNCHANGED <<pc, err>>
    /\ UNCHANGED <<names, config, dt, tables, t, steps, captured>>

\* cell 4, lines 126-128 and the next iteration of line 104
EndOfStep ==
    /\ pc = "loop"
    /\ InRange(t)
    /\ i = Nsmpl
    /\ IF t = IntHalf(tdim)
         THEN LET c == np_copy(heap, gmdist)
              IN /\ heap' = c.heap
                 /\ gmdist_dump2' = c.ref
                 /\ captured' = captured \cup {2}
         ELSE UNCHANGED <<heap, gmdist_dump2, captured>>
    /\ t' = t + 1
    /\ i' = 0
    /\ steps' = steps + 1
    /\ written' = [k \in 1..Nsmpl |-> 0]
    /\ UNCHANGED <<pc, err, gmdist, gmdist_dump1, gmdist_dump3, config, dt, tables, draws, updates, noiseZero>>

\* cell 4, line 131, once range(tdim) is exhausted
FinalDump ==
    /\ pc = "loop"
    /\ ~InRange(t)
    /\ LET c == np_copy(heap, gmdist)
       IN /\ heap' = c.heap
          /\ gmdist_dump3' = c.ref
    /\ captured' = captured \cup {3}
    /\ pc' = "done"
    /\ UNCHANGED <<err, gmdist, gmdist_dump1, gmdist_dump2, config, dt, tables, t, i, draws, updates, written, steps, noiseZero>>

Next == Setup \/ Interpolation \/ ParticleUpdate \/ EndOfStep \/ FinalDump

Spec == Init /\ [][Next]_vars

AnySpec == InitAny /\ [][Next]_vars

\* the notebook's cells run one after another until the last ends or one raises
FairSpec == Spec /\ WF_vars(Next)

\* ------------------------------------------------------------ properties
Ens == heap[gmdist]
Dump1 == heap[gmdist_dump1]
Dump2 == heap[gmdist_dump2]
Dump3 == heap[gmdist_dump3]

InterpError == "ValueError: interp1d out of range"
SqrtError == "ValueError: math domain error"

\* number of updates particle slot k has received
Applied(k) == IF pc = "loop" /\ k <= i THEN t + 1 ELSE t

\* gamma' = max(1, gamma - S(gamma)*dt), in plain integer arithmetic
DriftStep(g) ==
    LET r == g - ((S_intrp(g) * dt) \div Q)
    IN IF r < One THEN One ELSE r

RECURSIVE DriftIter(_, _)
DriftIter(g, n) == IF n <= 0 THEN g ELSE DriftIter(DriftStep(g), n - 1)

\* C1: once the sample has been clamped (line 58), every element of the
\* ensemble is a number >= 1 in every state of a run: before stepping, after
\* each particle update, after the loop, and after an aborted lookup.
C1_LowerBound ==
    pc # "cell2" => \A k \in 1..Nsmpl : ~IsNaN(Ens[k]) /\ Ens[k] >= One

\* a particle that started above 1 sits on the clamp after noisy updates
C1_Witness ==
    /\ pc = "loop"
    /\ ~noiseZero
    /\ Rval > 0
    /\ \E k \in 1..Nsmpl : Ens[k] = One /\ Dump1[k] > One

\* C2: gmdist_dump2 is rebound inside the loop only at step index
\* t = floor(tdim/2), when all Nsmpl particles of that step and none of the
\* next have been updated, to a copy of the ensemble as it then is; and a
\* run that completes has captured it.
C2_MidSnapshot ==
    /\ [][(pc = "loop" /\ gmdist_dump2' # gmdist_dump2) =>
            /\ t = tdim \div 2
            /\ i = Nsmpl
            /\ updates = (t + 1) * Nsmpl
            /\ updates' = updates
            /\ heap'[gmdist_dump2'] = heap[gmdist]
            /\ heap'[gmdist'] = heap[gmdist]]_vars
    /\ [](pc = "done" => 2 \in captured)

\* the mid snapshot of a noisy three-step run (taken at step index 1), seen
\* once the run is done
C2_Witness ==
    /\ pc = "done"
    /\ tdim = 3
    /\ Nsmpl >= 2
    /\ 2 \in captured
    /\ Dump2 # Dump1
    /\ Dump2 # Dump3
    /\ ~noiseZero

\* C3: once gmdist_dump1, gmdist_dump2 or gmdist_dump3 holds a snapshot, no
\* step changes its contents: not a later particle update, and nothing after
\* the run is done.
C3_NoAlias ==
    [][/\ (1 \in captured => heap'[gmdist_dump1'] = heap[gmdist_dump1])
       /\ (2 \in captured => heap'[gmdist_dump2'] = heap[gmdist_dump2])
       /\ (3 \in captured => heap'[gmdist_dump3'] = heap[gmdist_dump3])
       /\ (pc = "done" =>
              /\ heap'[gmdist_dump1'] = heap[gmdist_dump1]
              /\ heap'[gmdist_dump2'] = heap[gmdist_dump2]
              /\ heap'[gmdist_dump3'] = heap[gmdist_dump3])]_vars

\* particles were updated after both snapshots were taken
C3_Witness ==
    /\ pc = "loop"
    /\ {1, 2} \subseteq captured
    /\ t > tdim \div 2
    /\ i >= 1
    /\ Ens # Dump1
    /\ Ens # Dump2

\* C4: with R = 0 everywhere, or with every draw 0, each particle equals
\* gamma' = max(1, gamma - S(gamma)*dt) applied to its initial value once per
\* update it has received, hence T times when the run is done.  Three
\* particles at 1800 with T = 2, dt = 0.005, S = 10 end at 1799.9, and a
\* particle at 1.002 with S = 1.0, dt = 0.01 is at 1.0 after one update.
C4_ZeroDiffusion ==
    LET noDiffusion == (\A k \in 1..Len(R_lst) : R_lst[k] = 0) \/ noiseZero
    IN /\ (pc \in {"loop", "done"} /\ noDiffusion) =>
              \A k \in 1..Nsmpl : Ens[k] = DriftIter(Dump1[k], Applied(k))
       /\ (/\ pc = "done" /\ noDiffusion
           /\ Dump1 = <<1800000, 1800000, 1800000>>
           /\ tdim = 2 /\ dt = 5 /\ Sval = 10000) =>
              Ens = <<1799900, 1799900, 1799900>>
       /\ (/\ pc \in {"loop", "done"} /\ noDiffusion
           /\ Nsmpl >= 1 /\ Applied(1) = 1
           /\ Dump1[1] = 1002 /\ dt = 10 /\ Sval = 1000) =>
              Ens[1] = 1000

\* the scenario's run, completed
C4_Witness ==
    /\ pc = "done"
    /\ Dump1 = <<1800000, 1800000, 1800000>>
    /\ tdim = 2 /\ dt = 5 /\ Sval = 10000
    /\ \A k \in 1..Len(R_lst) : R_lst[k] = 0
    /\ Ens = <<1799900, 1799900, 1799900>>

\* C5 as claimed: with T <= 0 or dt <= 0 the run never completes, updates no
\* particle, draws no noise and produces neither the mid nor the final
\* snapshot.
C5_ConfigurationError ==
    (pc # "cell2" /\ (tdim <= 0 \/ dt <= 0)) =>
        /\ pc # "done"
        /\ updates = 0
        /\ draws = 0
        /\ 2 \notin captured
        /\ 3 \notin captured

\* C6: pc moves cell2 -> cell3 -> loop -> done (or to error, and never on
\* from done or error); the step index t only ever grows by one, inside
\* range(tdim); with fair scheduling a run that has entered the loop reaches
\* done unless a lookup out of range aborts it; and a completed run has run
\* exactly tdim steps and gmdist_dump3 equals the ensemble.
C6_StateMachine ==
    /\ [][(<<pc, pc'>> \in {<<"cell2", "cell3">>, <<"cell3", "loop">>,
                            <<"loop", "loop">>, <<"loop", "done">>,
                            <<"cell3", "error">>, <<"loop", "error">>})]_vars
    /\ [][t' = t \/ (t' = t + 1 /\ t < tdim /\ steps' = steps + 1)]_vars
    /\ [](pc = "done" =>
            /\ t = tdim
            /\ steps = tdim
            /\ 3 \in captured
            /\ Dump3 = Ens)
    /\ (pc = "loop" ~> (pc = "done" \/ err = InterpError))

\* a noisy run of MaxT steps, completed
C6_Witness ==
    /\ pc = "done"
    /\ Nsmpl >= 1
    /\ tdim = MaxT
    /\ steps = tdim
    /\ ~noiseZero

\* C7: while the loop runs every store into gmdist[i] is paired with one
\* draw, each slot is stored into exactly once per timestep, a completed run
\* has made T*N draws and T*N stores, and a store changes slot i alone, to
\* the step function of that slot's own current value and one draw.
C7_OneDrawOneWrite ==
    /\ [](pc \in {"loop", "done"} =>
            /\ draws = updates
            /\ updates = t * Nsmpl + i
            /\ \A k \in 1..Nsmpl :
                  written[k] = IF pc = "loop" /\ k <= i THEN 1 ELSE 0)
    /\ [](pc = "done" =>
            /\ draws = tdim * Nsmpl
            /\ updates = tdim * Nsmpl)
    /\ [][updates' # updates =>
            /\ updates' = updates + 1
            /\ draws' = draws + 1
            /\ \E z \in Noise :
                  heap'[gmdist'] =
                      [heap[gmdist] EXCEPT ![i + 1] = StepValue(heap[gmdist][i + 1], z)]]_vars

\* two particles, two steps, four draws, not all of them zero
C7_Witness ==
    /\ pc = "done"
    /\ tdim = 2
    /\ Nsmpl = 2
    /\ draws = 4
    /\ updates = 4
    /\ ~noiseZero

\* C8 as claimed: with N = 0, T >= 1 and dt > 0 no cell raises.
C8_EmptyEnsemble ==
    (Nsmpl = 0 /\ tdim >= 1 /\ tmax > 0) => pc # "error"

\* C9 as claimed: with a negative diffusion rate in the table (and T >= 1,
\* dt > 0) no update raises, and every particle stays a number >= 1 equal to
\* the pure drift step of its previous value.
C9_NegativeRClamped ==
    (/\ pc \in {"loop", "done", "error"}
     /\ tdim >= 1 /\ tmax > 0
     /\ \E k \in 1..Len(R_lst) : R_lst[k] < 0) =>
        /\ err # SqrtError
        /\ \A k \in 1..Nsmpl :
              /\ ~IsNaN(Ens[k])
              /\ Ens[k] >= One
              /\ Ens[k] = DriftIter(Dump1[k], Applied(k))

\* C10: a lookup for a particle above 2*max(initial ensemble) ends the run
\* with interp1d's error, leaving the ensemble, the counters and the
\* snapshots as they were; and no step is taken from an aborted run.
C10_NoExtrapolation ==
    /\ [][(/\ pc = "loop" /\ t < tdim /\ i < Nsmpl
           /\ FGt(heap[gmdist][i + 1], 2 * SeqMax(heap[gmdist_dump1]))) =>
            /\ pc' = "error"
            /\ err' = InterpError
            /\ heap' = heap
            /\ UNCHANGED <<names, updates, draws, captured, t, i>>]_vars
    /\ [][pc # "error"]_vars

\* an upward kick took a particle above the grid and the next lookup raised
C10_Witness ==
    /\ pc = "error"
    /\ err = InterpError
    /\ FGt(Ens[i + 1], 2 * SeqMax(Dump1))
    /\ 3 \notin captured

====
